---- MODULE Spec2Model ----
(***************************************************************************)
(* Model of the LiteX-CNC encoder module (litexcnc_encoder.c): the buffer  *)
(* sizers, the read cycle (litexcnc_encoder_process_read) and the write    *)
(* cycle (litexcnc_encoder_prepare_write) of one encoder module, together  *)
(* with the file-scope counter of initialised modules.                     *)
(*                                                                         *)
(* Numbers.  TLC's integers are 32 bits wide, so the 32-bit counter of the *)
(* source and its 64-bit difference cannot be held as they are.  A count   *)
(* record keeps its four bytes, but each byte has CountByteBits bits, so   *)
(* the counter has CountBits == 4 * CountByteBits bits and INT_MIN,        *)
(* INT_MAX and UINT_MAX are the limits of that width.  The bytes of the    *)
(* bit registers are ordinary 8-bit bytes.  A double is an exact rational  *)
(* <<numerator, denominator>>; a float is a rational rounded to            *)
(* FloatMantBits significant bits.                                         *)
(***************************************************************************)
EXTENDS Integers, Sequences, FiniteSets, TLC

(***************************************************************************)
(* Bounds of the model.                                                    *)
(***************************************************************************)
\* bits of each of the four bytes of a count record (8 in the source)
CountByteBits == 2
\* most channels of the module in the numeric specification
MaxChannels == 2
\* most calls of litexcnc_encoder_init in one run of the process
MaxModules == 2
\* most read cycles in one behaviour
MaxTicks == 3
\* most writes of the HAL user to pins and parameters in one behaviour
MaxHalWrites == 2
\* length of the velocity history (LITEXCNC_ENCODER_POSITION_AVERAGE_SIZE is
\* set in litexcnc_encoder.h; the model is checked for a short history)
LITEXCNC_ENCODER_POSITION_AVERAGE_SIZE == 2

(***************************************************************************)
(* Integer arithmetic of the C types.                                      *)
(***************************************************************************)
Pow2(k) == 2 ^ k

CountBits == 4 * CountByteBits
INT_MAX == Pow2(CountBits - 1) - 1
INT_MIN == -Pow2(CountBits - 1)
UINT_MAX == Pow2(CountBits) - 1

Abs(x) == IF x < 0 THEN -x ELSE x

\* C integer division: truncates toward zero
CDiv(a, b) == IF a >= 0 THEN a \div b ELSE -((-a) \div b)

\* (int32_t) of an unsigned word: two's complement
ToInt32(u) == IF u > INT_MAX THEN u - Pow2(CountBits) ELSE u

\* the unsigned word of an int32_t
ToUint32(x) == IF x < 0 THEN x + Pow2(CountBits) ELSE x

\* result of int32_t arithmetic whose mathematical value is x (wraps)
WrapInt32(x) == ((x - INT_MIN) % Pow2(CountBits)) + INT_MIN

\* be32toh of the four bytes of a record: the first byte is the most significant
be32toh(b) ==
    LET B == Pow2(CountByteBits)
    IN  ((b[1] * B + b[2]) * B + b[3]) * B + b[4]

\* the four bytes the FPGA sends for the unsigned word u (big-endian)
WireBytes(u) ==
    LET B == Pow2(CountByteBits)
    IN  << (u \div (B * B * B)) % B, (u \div (B * B)) % B, (u \div B) % B, u % B >>

(***************************************************************************)
(* Floating point: rationals <<n, d>> with d > 0 in lowest terms.          *)
(***************************************************************************)
RECURSIVE GCD(_, _)
GCD(a, b) == IF b = 0 THEN a ELSE GCD(b, a % b)

Rat(n, d) ==
    LET g == GCD(Abs(n), Abs(d))
        s == IF d < 0 THEN -1 ELSE 1
    IN  << (s * n) \div g, (s * d) \div g >>

RInt(i) == << i, 1 >>
RZero == RInt(0)
ROne == RInt(1)
RAdd(a, b) == Rat(a[1] * b[2] + b[1] * a[2], a[2] * b[2])
RSub(a, b) == Rat(a[1] * b[2] - b[1] * a[2], a[2] * b[2])
RMul(a, b) == Rat(a[1] * b[1], a[2] * b[2])
RDiv(a, b) == Rat(a[1] * b[2], a[2] * b[1])
RLess(a, b) == a[1] * b[2] < b[1] * a[2]

\* significant bits of a float (24 in the source, for 8-bit bytes)
FloatMantBits == 3 * CountByteBits

\* p / q rounded to the nearest integer, ties to even
RoundHalfEven(p, q) ==
    LET f == p \div q
        r == p % q
    IN  IF 2 * r < q THEN f
        ELSE IF 2 * r > q THEN f + 1
        ELSE IF f % 2 = 0 THEN f ELSE f + 1

RECURSIVE ScaleDown(_, _, _)
\* least k with a / (d * 2^k) < 2^FloatMantBits
ScaleDown(a, d, k) ==
    IF a < d * Pow2(k) * Pow2(FloatMantBits) THEN k ELSE ScaleDown(a, d, k + 1)

RECURSIVE ScaleUp(_, _, _)
\* least k with a * 2^k / d >= 2^(FloatMantBits - 1)
ScaleUp(a, d, k) ==
    IF a * Pow2(k) >= d * Pow2(FloatMantBits - 1) THEN k ELSE ScaleUp(a, d, k + 1)

\* (float) of a double: round to FloatMantBits significant bits
ToFloat(x) ==
    LET a == Abs(x[1])
        d == x[2]
        s == IF x[1] < 0 THEN -1 ELSE 1
    IN  IF a = 0 THEN x
        ELSE IF a >= d * Pow2(FloatMantBits)
             THEN LET k == ScaleDown(a, d, 1)
                  IN  Rat(s * RoundHalfEven(a, d * Pow2(k)) * Pow2(k), 1)
             ELSE LET k == ScaleUp(a, d, 0)
                  IN  Rat(s * RoundHalfEven(a * Pow2(k), d), Pow2(k))

(***************************************************************************)
(* State.                                                                  *)
(***************************************************************************)
VARIABLES
    num_instances,  \* the file-scope counter of initialised modules (line 51)
    created,        \* whether the module under observation has been initialised
    encoder,        \* the litexcnc_encoder_t of the module under observation
    op,             \* the operation that ran last
    rdata,          \* op = "read": memory at the data cursor of that read cycle
    rcursor,        \* op = "read": bytes that read cycle advanced the cursor by
    rstart,         \* op = "read": the channels at the start of that read cycle
    rslots,         \* op = "read": the velocity pointer and sample of every channel
    wdata_in,       \* op = "write": the outgoing buffer before that write cycle
    wdata,          \* op = "write": the outgoing buffer after that write cycle
    wcursor,        \* op = "write": bytes that write cycle advanced the cursor by
    ticks,          \* read cycles so far
    hal_writes,     \* writes of the HAL user so far
    history         \* per channel: the velocity samples and position deltas so far

vars == << num_instances, created, encoder, op, rdata, rcursor, rstart, rslots,
           wdata_in, wdata, wcursor, ticks, hal_writes, history >>

\* sizeof(litexcnc_encoder_instance_read_data_t): one 32-bit count
SizeofReadData == 4

\* one channel as hal_malloc returns it (HAL shared memory is zeroed); the pins,
\* the parameters, memo, data, and the local variable difference of the last
\* read cycle; memo_velocity_end is the memory right behind memo.velocity
ZeroInstance ==
    [ raw_counts |-> 0, counts |-> 0, reset |-> FALSE, index_enable |-> FALSE,
      index_pulse |-> FALSE, position |-> RZero, velocity |-> RZero,
      velocity_rpm |-> RZero, overflow_occurred |-> FALSE,
      position_scale |-> RZero, x4_mode |-> FALSE,
      memo_position_scale |-> RZero, memo_position_reset |-> 0,
      memo_velocity |-> [j \in 0 .. LITEXCNC_ENCODER_POSITION_AVERAGE_SIZE - 1 |-> RZero],
      memo_velocity_end |-> RZero,
      position_scale_recip |-> RZero, difference |-> 0 ]

\* the litexcnc_encoder_t of a module with n channels, as created by init
NewEncoder(n) ==
    [ num_instances |-> n,
      instances |-> [c \in 0 .. n - 1 |-> ZeroInstance],
      memo_period |-> 0, memo_velocity_pointer |-> 0, recip_dt |-> RZero ]

Channels == DOMAIN encoder.instances

\* what has been seen of the channels of a module of n channels: recent, the
\* last velocity samples of the channel, the newest first (zero where the
\* channel has not produced one); delta and steady, the change of position of
\* the last read cycle without index pulse and for how many read cycles in a
\* row, up to the length of the history, the channel had no index pulse and
\* that change of position
NewHistory(n) ==
    [c \in 0 .. n - 1 |->
        [recent |-> [k \in 1 .. LITEXCNC_ENCODER_POSITION_AVERAGE_SIZE |-> RZero],
         delta |-> RZero, steady |-> 0]]

\* the history of a channel after a read cycle that took it from before to
\* after and stored the sample of slot
Observe(h, before, after, slot) ==
    IF ~slot.wrote THEN [h EXCEPT !.delta = RZero, !.steady = 0]
    ELSE LET d == RSub(after.position, before.position)
         IN  [recent |-> << slot.sample >>
                           \o SubSeq(h.recent, 1, LITEXCNC_ENCODER_POSITION_AVERAGE_SIZE - 1),
              delta |-> d,
              steady |-> IF h.steady > 0 /\ h.delta = d
                         THEN IF h.steady < LITEXCNC_ENCODER_POSITION_AVERAGE_SIZE
                              THEN h.steady + 1 ELSE h.steady
                         ELSE 1]

(***************************************************************************)
(* The buffer sizers.                                                      *)
(***************************************************************************)
\* (n >> 5) + ((n & 0x1F) ? 1 : 0), times 4
single_dword_buffer(encoder_module) ==
    ((encoder_module.num_instances \div 32)
        + (IF encoder_module.num_instances % 32 # 0 THEN 1 ELSE 0)) * 4

required_write_buffer(instance) == single_dword_buffer(instance) * 2

\* num_instances here is the file-scope counter, not the field of the module
required_read_buffer(instance) ==
    single_dword_buffer(instance) + num_instances * SizeofReadData

\* the variables of a read cycle and of a write cycle describe the last
\* operation only
NoRead == rdata' = << >> /\ rcursor' = 0 /\ rstart' = << >> /\ rslots' = << >>
NoWrite == wdata_in' = << >> /\ wdata' = << >> /\ wcursor' = 0

(***************************************************************************)
(* litexcnc_encoder_init: counts the module and creates its channels.      *)
(* It runs once for the module under observation (mine) and once for every *)
(* other encoder module of the process, of which only the count is kept;   *)
(* the modules are initialised before the first cycle.                     *)
(***************************************************************************)
litexcnc_encoder_init(n, mine) ==
    /\ num_instances < MaxModules
    /\ op \in { "none", "init" }
    /\ mine => ~created
    /\ num_instances' = num_instances + 1
    /\ created' = (created \/ mine)
    /\ encoder' = IF mine THEN NewEncoder(n) ELSE encoder
    /\ op' = "init"
    /\ history' = IF mine THEN NewHistory(n) ELSE history
    /\ NoRead
    /\ NoWrite
    /\ UNCHANGED << ticks, hal_writes >>

(***************************************************************************)
(* litexcnc_encoder_process_read, step by step.                            *)
(***************************************************************************)
\* the function f as a table: the results of a loop, each computed once
Table(f) == f @@ << >>

\* *(*data) & mask, for a mask of one bit
ByteAnd(byte, mask) == (byte \div mask) % 2 = 1

\* *(*data) | mask, for a mask of one bit
ByteOr(byte, mask) == IF ByteAnd(byte, mask) THEN byte ELSE byte + mask

\* recip_dt = 1.0 / (period * 0.000000001), only when the period changed
update_period(enc, period) ==
    IF enc.memo_period # period
    THEN [enc EXCEPT !.recip_dt = RDiv(ROne, RMul(RInt(period), << 1, 1000000000 >>)),
                     !.memo_period = period]
    ELSE enc

\* A register loop, for (i = single_dword_buffer * 8; i > 0; i--), starts with
\* mask 0x80 at the cursor, shifts the mask right in every iteration and, when
\* the mask is 0, resets it and advances the cursor.  So the iteration with
\* value i works on bit position bits - i of the register:
\* the offset of its byte from the start of the register
LoopByte(enc, i) == (single_dword_buffer(enc) * 8 - i) \div 8
\* its mask
LoopMask(enc, i) == Pow2(7 - ((single_dword_buffer(enc) * 8 - i) % 8))

\* the body of the index pulse loop for one value of i, on the channel i - 1 it
\* writes: only when i < num_instances
index_pulse_step(i, enc, inst, byte, mask) ==
    IF i < enc.num_instances
    THEN LET index_pulse == ByteAnd(byte, mask)
         IN  [inst EXCEPT !.index_enable = IF index_pulse THEN FALSE ELSE @,
                          !.index_pulse = index_pulse]
    ELSE inst

\* the index pulse loop: channel c is written by the iteration i = c + 1 alone;
\* the cursor ends behind the register
index_pulse_loop(enc, insts, data) ==
    [instances |->
        Table([c \in DOMAIN insts |->
            index_pulse_step(c + 1, enc, insts[c],
                             data[LoopByte(enc, c + 1) + 1], LoopMask(enc, c + 1))]),
     ptr |-> single_dword_buffer(enc)]

\* 1e-20 of the source: the least scale that is not replaced by 1.0 (the
\* threshold is brought into the range of TLC's integers)
ScaleEps == Rat(1, Pow2(10))

\* recompute the reciprocal when the parameter differs from the memo
position_scale_check(inst) ==
    IF inst.position_scale # inst.memo_position_scale
    THEN LET scale == IF RLess(RSub(RZero, ScaleEps), inst.position_scale)
                         /\ RLess(inst.position_scale, ScaleEps)
                      THEN ROne ELSE inst.position_scale
         IN  [inst EXCEPT !.position_scale = scale,
                          !.position_scale_recip = RDiv(ROne, scale),
                          !.memo_position_scale = scale]
    ELSE inst

\* raw_counts from the record at the cursor, counts with the x4 division
store_counts(inst, record) ==
    LET raw == ToInt32(be32toh(record))
    IN  [inst EXCEPT !.raw_counts = raw,
                     !.counts = IF inst.x4_mode THEN raw ELSE CDiv(raw, 4)]

\* a reset mechanism that does not move counts_old to the counts of this tick
reset_mechanism_keeps_counts_old(inst, counts_old) ==
    IF inst.reset
    THEN [inst |-> [inst EXCEPT !.overflow_occurred = FALSE,
                                !.memo_position_reset = inst.counts,
                                !.reset = FALSE],
          counts_old |-> counts_old]
    ELSE [inst |-> inst, counts_old |-> counts_old]

\* the reset mechanism: the instance and the local counts_old
reset_mechanism(inst, counts_old) ==
    IF inst.reset
    THEN [inst |-> [inst EXCEPT !.overflow_occurred = FALSE,
                                !.memo_position_reset = inst.counts,
                                !.reset = FALSE],
          counts_old |-> inst.raw_counts]
    ELSE [inst |-> inst, counts_old |-> counts_old]

\* *(counts) -= memo.position_reset, in int32_t
apply_reset_offset(inst) ==
    [inst EXCEPT !.counts = WrapInt32(inst.counts - inst.memo_position_reset)]

\* the local difference after the roll-over compensation
rollover_difference(inst, counts_old) ==
    LET difference == inst.raw_counts - counts_old
    IN  IF difference < INT_MIN \/ difference > INT_MAX
        THEN LET compensated == IF difference < 0 THEN difference + UINT_MAX
                                ELSE difference - UINT_MAX
             IN  IF inst.x4_mode THEN compensated ELSE CDiv(compensated, 4)
        ELSE difference

\* a position calculation that takes overflow from this tick alone
calculate_position_forgets_overflow(inst, counts_old) ==
    IF inst.index_pulse
    THEN [inst EXCEPT !.position = RMul(RInt(inst.counts), inst.position_scale_recip),
                      !.overflow_occurred = FALSE,
                      !.difference = 0]
    ELSE LET raw_difference == inst.raw_counts - counts_old
             overflow == raw_difference < INT_MIN \/ raw_difference > INT_MAX
             difference == rollover_difference(inst, counts_old)
         IN  [inst EXCEPT !.overflow_occurred = overflow,
                          !.difference = difference,
                          !.position =
                              IF overflow
                              THEN RAdd(inst.position,
                                        RMul(RInt(difference), inst.position_scale_recip))
                              ELSE RMul(RInt(inst.counts), inst.position_scale_recip)]

\* a position calculation whose index pulse branch leaves overflow_occurred
calculate_position_keeps_overflow(inst, counts_old) ==
    IF inst.index_pulse
    THEN [inst EXCEPT !.position = RMul(RInt(inst.counts), inst.position_scale_recip),
                      !.difference = 0]
    ELSE LET raw_difference == inst.raw_counts - counts_old
             overflow == inst.overflow_occurred
                           \/ raw_difference < INT_MIN \/ raw_difference > INT_MAX
             difference == rollover_difference(inst, counts_old)
         IN  [inst EXCEPT !.overflow_occurred = overflow,
                          !.difference = difference,
                          !.position =
                              IF overflow
                              THEN RAdd(inst.position,
                                        RMul(RInt(difference), inst.position_scale_recip))
                              ELSE RMul(RInt(inst.counts), inst.position_scale_recip)]

\* the new position: absolute on an index pulse and without overflow,
\* incremental once overflow has occurred
calculate_position(inst, counts_old) ==
    IF inst.index_pulse
    THEN [inst EXCEPT !.position = RMul(RInt(inst.counts), inst.position_scale_recip),
                      !.overflow_occurred = FALSE,
                      !.difference = 0]
    ELSE LET raw_difference == inst.raw_counts - counts_old
             overflow == inst.overflow_occurred
                           \/ raw_difference < INT_MIN \/ raw_difference > INT_MAX
             difference == rollover_difference(inst, counts_old)
         IN  [inst EXCEPT !.overflow_occurred = overflow,
                          !.difference = difference,
                          !.position =
                              IF overflow
                              THEN RAdd(inst.position,
                                        RMul(RInt(difference), inst.position_scale_recip))
                              ELSE RMul(RInt(inst.counts), inst.position_scale_recip)]

\* LITEXCNC_ENCODER_POSITION_AVERAGE_RECIP: 1 / size of the history
LITEXCNC_ENCODER_POSITION_AVERAGE_RECIP == Rat(1, LITEXCNC_ENCODER_POSITION_AVERAGE_SIZE)

RECURSIVE average_loop(_, _, _)
\* float average; for (j = 0; j < SIZE; j++) average += velocity[j]
average_loop(j, velocity, average) ==
    IF j >= LITEXCNC_ENCODER_POSITION_AVERAGE_SIZE THEN average
    ELSE average_loop(j + 1, velocity, ToFloat(RAdd(average, velocity[j])))

\* if (velocity_pointer++ >= SIZE) velocity_pointer = 0
advance_velocity_pointer(p) ==
    IF p >= LITEXCNC_ENCODER_POSITION_AVERAGE_SIZE THEN 0 ELSE p + 1

\* a running average that is also updated in a cycle with index pulse
calculate_velocity_on_index_pulse(inst, position_old, p, recip_dt) ==
    LET sample == RMul(RSub(inst.position, position_old), recip_dt)
        stored == IF p < LITEXCNC_ENCODER_POSITION_AVERAGE_SIZE
                  THEN [inst EXCEPT !.memo_velocity[p] = sample]
                  ELSE [inst EXCEPT !.memo_velocity_end = sample]
        velocity == RMul(average_loop(0, stored.memo_velocity, RZero),
                         LITEXCNC_ENCODER_POSITION_AVERAGE_RECIP)
    IN  [inst |-> [stored EXCEPT !.velocity = velocity,
                                 !.velocity_rpm = RMul(velocity, RInt(60))],
         pointer |-> advance_velocity_pointer(p),
         wrote |-> TRUE, sample |-> sample]

\* the running average of the velocity; p is the shared velocity pointer.  A
\* store at p = SIZE lands behind the array, in memo_velocity_end.  The result
\* is the channel, the pointer afterwards, whether a sample was stored and the
\* sample
calculate_velocity(inst, position_old, p, recip_dt) ==
    IF ~inst.index_pulse
    THEN LET sample == RMul(RSub(inst.position, position_old), recip_dt)
             stored == IF p < LITEXCNC_ENCODER_POSITION_AVERAGE_SIZE
                       THEN [inst EXCEPT !.memo_velocity[p] = sample]
                       ELSE [inst EXCEPT !.memo_velocity_end = sample]
             velocity == RMul(average_loop(0, stored.memo_velocity, RZero),
                              LITEXCNC_ENCODER_POSITION_AVERAGE_RECIP)
         IN  [inst |-> [stored EXCEPT !.velocity = velocity,
                                      !.velocity_rpm = RMul(velocity, RInt(60))],
              pointer |-> advance_velocity_pointer(p),
              wrote |-> TRUE, sample |-> sample]
    ELSE [inst |-> inst, pointer |-> p, wrote |-> FALSE, sample |-> RZero]

\* the body of the loop over the instances for one channel
process_instance(inst, record, p, recip_dt) ==
    LET scaled == position_scale_check(inst)
        counts_old == scaled.raw_counts
        stored == store_counts(scaled, record)
        reset == reset_mechanism(stored, counts_old)
        offset == apply_reset_offset(reset.inst)
        position_old == ToFloat(offset.position)
        positioned == calculate_position(offset, reset.counts_old)
    IN  calculate_velocity(positioned, position_old, p, recip_dt)

\* the velocity pointer after k channels without index pulse have advanced it:
\* the pointer runs through 0, 1, ..., SIZE and back to 0
pointer_after(p, k) == (p + k) % (LITEXCNC_ENCODER_POSITION_AVERAGE_SIZE + 1)

\* the velocity pointer when the loop over the instances reaches channel i: the
\* channels before it have advanced it, each one that has no index pulse
pointer_at(enc, i) ==
    pointer_after(enc.memo_velocity_pointer,
                  Cardinality({ j \in DOMAIN enc.instances :
                                  j < i /\ ~enc.instances[j].index_pulse }))

\* for (i = 0; i < num_instances; i++): channel i reads the record at the
\* cursor, which every channel advances by the size of a record; the velocity
\* pointer is left where the last channel leaves it
instances_loop(enc, data, ptr) ==
    LET done == Table([i \in DOMAIN enc.instances |->
                    LET at == ptr + i * SizeofReadData
                        record == << data[at + 1], data[at + 2], data[at + 3], data[at + 4] >>
                    IN  process_instance(enc.instances[i], record,
                                         pointer_at(enc, i), enc.recip_dt)])
    IN  [encoder |->
            [enc EXCEPT
                !.instances = [i \in DOMAIN enc.instances |-> done[i].inst],
                !.memo_velocity_pointer = done[enc.num_instances - 1].pointer],
         ptr |-> ptr + enc.num_instances * SizeofReadData,
         slots |-> Table([i \in DOMAIN enc.instances |->
                      [seen |-> pointer_at(enc, i), left |-> done[i].pointer,
                       wrote |-> done[i].wrote, sample |-> done[i].sample]])]

\* the whole read cycle: the encoder afterwards, the advance of the cursor, and
\* for every channel the velocity pointer it met and left and the sample it stored
process_read(enc, data, period) ==
    IF enc.num_instances = 0 THEN [encoder |-> enc, ptr |-> 0, slots |-> << >>]
    ELSE LET timed == update_period(enc, period)
             pulses == index_pulse_loop(timed, timed.instances, data)
         IN  instances_loop([timed EXCEPT !.instances = pulses.instances],
                            data, pulses.ptr)

(***************************************************************************)
(* litexcnc_encoder_prepare_write.                                         *)
(***************************************************************************)
\* the body of a register loop for one value of i: the bit of channel i - 1 is
\* or-ed into the byte at the cursor, and only when i < num_instances
register_step(i, enc, pin, byte, mask) ==
    IF i < enc.num_instances /\ enc.instances[i - 1][pin] THEN ByteOr(byte, mask)
    ELSE byte

\* the eight iterations that work on one byte, the first of them with value i
register_byte(i, enc, pin, byte) ==
    register_step(i - 7, enc, pin,
     register_step(i - 6, enc, pin,
      register_step(i - 5, enc, pin,
       register_step(i - 4, enc, pin,
        register_step(i - 3, enc, pin,
         register_step(i - 2, enc, pin,
          register_step(i - 1, enc, pin,
           register_step(i, enc, pin, byte, 128), 64), 32), 16), 8), 4), 2), 1)

\* a register loop with the cursor at ptr: the bytes of the register are or-ed
\* into, the others are left; the cursor ends behind the register
register_loop(enc, pin, data, ptr) ==
    LET reg == single_dword_buffer(enc)
    IN  [data |->
            [k \in DOMAIN data |->
                IF k - 1 >= ptr /\ k - 1 < ptr + reg
                THEN register_byte(reg * 8 - 8 * (k - 1 - ptr), enc, pin, data[k])
                ELSE data[k]],
         ptr |-> ptr + reg]

\* the whole write cycle: the buffer afterwards and the advance of the cursor
prepare_write(enc, data) ==
    IF enc.num_instances = 0 THEN [data |-> data, ptr |-> 0]
    ELSE LET enable == register_loop(enc, "index_enable", data, 0)
         IN  register_loop(enc, "index_pulse", enable.data, enable.ptr)

(***************************************************************************)
(* Inputs: what the FPGA sends, what the outgoing buffer holds before a    *)
(* write cycle, and what the HAL user writes.                              *)
(***************************************************************************)
Bit(S, p, w) == IF p \in S THEN w ELSE 0

\* byte k (from 0) of a register in which exactly the bit positions of S are
\* set, position 0 being the most significant bit of the first byte
RegisterByte(S, k) ==
    Bit(S, 8 * k, 128) + Bit(S, 8 * k + 1, 64) + Bit(S, 8 * k + 2, 32)
    + Bit(S, 8 * k + 3, 16) + Bit(S, 8 * k + 4, 8) + Bit(S, 8 * k + 5, 4)
    + Bit(S, 8 * k + 6, 2) + Bit(S, 8 * k + 7, 1)

\* whether bit position p of the register that starts at byte offset `from` is set
RegisterBit(data, from, p) ==
    ByteAnd(data[from + (p \div 8) + 1], Pow2(7 - (p % 8)))

\* the bits of a shared register of enc
RegisterBits(enc) == 0 .. single_dword_buffer(enc) * 8 - 1

\* the memory a read cycle of enc walks over: the bytes of the index pulse
\* register, then one record per channel with the counts of raws
ReadMemory(enc, register, raws) ==
    LET reg == single_dword_buffer(enc)
    IN  [k \in 1 .. reg + enc.num_instances * SizeofReadData |->
            IF k <= reg THEN register[k]
            ELSE WireBytes(ToUint32(raws[(k - reg - 1) \div SizeofReadData]))
                          [((k - reg - 1) % SizeofReadData) + 1]]

\* the bytes of a register of enc with exactly the bit positions of S set
Register(enc, S) == [k \in 1 .. single_dword_buffer(enc) |-> RegisterByte(S, k - 1)]

ReadBuffer(enc, S, raws) == ReadMemory(enc, Register(enc, S), raws)

\* counts the FPGA reports
RawInputs == { INT_MIN, -5, INT_MAX }

\* the counts of one cycle: every channel reports the same count
RawVectors(enc) == { [c \in DOMAIN enc.instances |-> r] : r \in RawInputs }

\* the period of the thread, in ns
Periods == { 1000000000 }

\* an outgoing buffer of enc with every byte equal to b
WriteBuffer(enc, b) == [k \in 1 .. required_write_buffer(enc) |-> b]

\* values the HAL user gives position_scale: zero, one below the threshold, 1/2
Scales == { RZero, Rat(1, 2 * Pow2(10)), Rat(1, 2) }

(***************************************************************************)
(* Actions.                                                                *)
(***************************************************************************)
litexcnc_encoder_process_read(data, period) ==
    /\ created
    /\ ticks < MaxTicks
    /\ \E r \in { process_read(encoder, data, period) } :
           /\ encoder' = r.encoder
           /\ rcursor' = r.ptr
           /\ rslots' = r.slots
    /\ history' = [c \in Channels |->
                     Observe(history[c], encoder.instances[c],
                             encoder'.instances[c], rslots'[c])]
    /\ rdata' = data
    /\ rstart' = encoder.instances
    /\ op' = "read"
    /\ ticks' = ticks + 1
    /\ NoWrite
    /\ UNCHANGED << num_instances, created, hal_writes >>

litexcnc_encoder_prepare_write(data) ==
    /\ created
    /\ \E r \in { prepare_write(encoder, data) } :
           /\ wdata' = r.data
           /\ wcursor' = r.ptr
    /\ wdata_in' = data
    /\ op' = "write"
    /\ NoRead
    /\ UNCHANGED << num_instances, created, encoder, ticks, hal_writes, history >>

\* the HAL user sets a pin or a parameter of channel c between two cycles
HalSet(c, field, value) ==
    /\ created
    /\ hal_writes < MaxHalWrites
    /\ encoder.instances[c][field] # value
    /\ encoder' = [encoder EXCEPT !.instances[c][field] = value]
    /\ op' = "hal"
    /\ hal_writes' = hal_writes + 1
    /\ NoRead
    /\ NoWrite
    /\ UNCHANGED << num_instances, created, ticks, history >>

Init ==
    /\ num_instances = 0
    /\ created = FALSE
    /\ encoder = NewEncoder(0)
    /\ op = "none"
    /\ rdata = << >>
    /\ rcursor = 0
    /\ rstart = << >>
    /\ rslots = << >>
    /\ wdata_in = << >>
    /\ wdata = << >>
    /\ wcursor = 0
    /\ ticks = 0
    /\ hal_writes = 0
    /\ history = << >>

(***************************************************************************)
(* Spec: the counting, position and velocity of a module of up to          *)
(* MaxChannels channels.  The HAL user works on reset, x4_mode and         *)
(* position_scale; the index pulse register has no bit or every bit set.   *)
(***************************************************************************)
EncoderInit ==
    \E n \in 0 .. MaxChannels, mine \in BOOLEAN : litexcnc_encoder_init(n, mine)

ReadCycle ==
    \E S \in { {}, RegisterBits(encoder) }, raws \in RawVectors(encoder),
       period \in Periods :
        litexcnc_encoder_process_read(ReadBuffer(encoder, S, raws), period)

WriteCycle == litexcnc_encoder_prepare_write(WriteBuffer(encoder, 0))

HalUser ==
    \E c \in Channels :
        \/ HalSet(c, "reset", TRUE)
        \/ \E b \in BOOLEAN : HalSet(c, "x4_mode", b)
        \/ \E scale \in Scales : HalSet(c, "position_scale", scale)

Next == EncoderInit \/ ReadCycle \/ WriteCycle \/ HalUser

Spec == Init /\ [][Next]_vars

(***************************************************************************)
(* SpecCodec: the shared registers of a module of 0, 1, 31, 32, 33 or 64   *)
(* channels.  The HAL user works on index_enable; the counts stay 0; the   *)
(* outgoing buffer is zeroed or dirty before a write cycle; the FPGA may   *)
(* send back the index enable register it received as index pulses.        *)
(***************************************************************************)
CodecCounts == { 0, 1, 31, 32, 33, 64 }

\* the channels the HAL user works on: the first, and the last two
CodecChannels == { c \in Channels : c = 0 \/ c >= encoder.num_instances - 2 }

\* index pulse registers: empty, the first bit, the last bit, every bit, and
\* after a write cycle the first register of the outgoing buffer
CodecRegisters ==
    LET last == single_dword_buffer(encoder) * 8 - 1
    IN  { Register(encoder, S) :
            S \in { {}, { 0 } \cap RegisterBits(encoder), { last } \cap RegisterBits(encoder),
                    RegisterBits(encoder) } }
        \cup (IF op = "write" /\ encoder.num_instances > 0
              THEN { SubSeq(wdata, 1, single_dword_buffer(encoder)) } ELSE {})

CodecInit ==
    \E n \in CodecCounts, mine \in BOOLEAN : litexcnc_encoder_init(n, mine)

CodecReadCycle ==
    \E register \in CodecRegisters, period \in Periods :
        litexcnc_encoder_process_read(
            ReadMemory(encoder, register, [c \in Channels |-> 0]), period)

CodecWriteCycle ==
    \E b \in { 0, 255 } : litexcnc_encoder_prepare_write(WriteBuffer(encoder, b))

CodecHalUser == \E c \in CodecChannels : HalSet(c, "index_enable", TRUE)

NextCodec == CodecInit \/ CodecReadCycle \/ CodecWriteCycle \/ CodecHalUser

SpecCodec == Init /\ [][NextCodec]_vars

(***************************************************************************)
(* Properties.                                                             *)
(***************************************************************************)
\* ceil(n / 32)
Ceil32(n) == (n + 31) \div 32

\* whether a scale lies within the threshold of zero
NearZero(scale) == RLess(RSub(RZero, ScaleEps), scale) /\ RLess(scale, ScaleEps)

\* the counts of a channel before the reset offset is applied
PreOffsetCounts(inst) ==
    IF inst.x4_mode THEN inst.raw_counts ELSE CDiv(inst.raw_counts, 4)

Sign(x) == IF x > 0 THEN 1 ELSE IF x < 0 THEN -1 ELSE 0

\* C1: for every channel count n and however many encoder modules have been
\* initialised, required_write_buffer is 2 * ceil(n/32) * 4 bytes and
\* required_read_buffer is ceil(n/32) * 4 + 4 * n bytes.
C1_SizersFollowChannelCount ==
    created =>
        /\ required_write_buffer(encoder) = 2 * Ceil32(encoder.num_instances) * 4
        /\ required_read_buffer(encoder) =
               Ceil32(encoder.num_instances) * 4 + 4 * encoder.num_instances

\* C2: a read cycle advances the cursor by exactly required_read_buffer bytes and
\* a write cycle by exactly required_write_buffer bytes, so that no cycle touches
\* a byte at an offset at or behind the size the sizer reports.
C2_CyclesWalkTheSizedBuffer ==
    /\ op = "read" => rcursor = required_read_buffer(encoder)
    /\ op = "write" => wcursor = required_write_buffer(encoder)

\* C3: after a read cycle with n > 0 channels, index_pulse of every channel i is
\* the bit at position i of the incoming register, counted from the most
\* significant bit of the first byte.
C3_IndexPulseIsBitOfChannel ==
    (op = "read" /\ encoder.num_instances > 0) =>
        \A c \in Channels :
            encoder.instances[c].index_pulse = RegisterBit(rdata, 0, c)

\* C4: after a write cycle with n > 0 channels, whatever the buffer held before,
\* bit i of the first register is index_enable of channel i, bit i of the second
\* register is index_pulse of channel i, and every bit at a position >= n is 0.
C4_WriteBufferIsTheFlags ==
    (op = "write" /\ encoder.num_instances > 0) =>
        \A p \in RegisterBits(encoder) :
            /\ RegisterBit(wdata, 0, p)
                 = (p < encoder.num_instances /\ encoder.instances[p].index_enable)
            /\ RegisterBit(wdata, single_dword_buffer(encoder), p)
                 = (p < encoder.num_instances /\ encoder.instances[p].index_pulse)

\* a write cycle into a zeroed buffer, by channels without index pulse, is
\* followed by a read cycle whose index pulse register is the index enable
\* register that write cycle produced
RoundTripStep ==
    /\ op = "write"
    /\ encoder.num_instances > 0
    /\ \A k \in DOMAIN wdata_in : wdata_in[k] = 0
    /\ \A c \in Channels : ~encoder.instances[c].index_pulse
    /\ op' = "read"
    /\ SubSeq(rdata', 1, single_dword_buffer(encoder))
         = SubSeq(wdata, 1, single_dword_buffer(encoder))

\* C5: a bit vector encoded by the write cycle into a zeroed buffer and decoded
\* by the read cycle comes back unchanged: index_pulse of every channel is the
\* flag that was encoded for it.
C5_RoundTripIsLossless ==
    [][RoundTripStep =>
          \A c \in Channels :
              encoder'.instances[c].index_pulse = encoder.instances[c].index_enable]_vars

\* C6: overflow_occurred is sticky: a step that takes it from true to false is a
\* read cycle that started with reset true or that has index_pulse true; no write
\* cycle, no write of the HAL user and no other read cycle clears it.
C6_OverflowIsSticky ==
    [][\A c \in Channels :
          (encoder.instances[c].overflow_occurred
             /\ ~encoder'.instances[c].overflow_occurred)
          => /\ op' = "read"
             /\ encoder.instances[c].reset \/ encoder'.instances[c].index_pulse]_vars

\* a read cycle has cleared the overflow flag of a channel
C6_OverflowCleared ==
    /\ op = "read"
    /\ \E c \in Channels :
          rstart[c].overflow_occurred /\ ~encoder.instances[c].overflow_occurred

\* C7: after a read cycle in which index_pulse of a channel is true, position is
\* counts * scale_reciprocal and overflow_occurred is false, whatever they were
\* before and whatever the raw difference of the tick.
C7_IndexPulseReanchors ==
    op = "read" =>
        \A c \in Channels :
            encoder.instances[c].index_pulse =>
                /\ encoder.instances[c].position
                     = RMul(RInt(encoder.instances[c].counts),
                            encoder.instances[c].position_scale_recip)
                /\ ~encoder.instances[c].overflow_occurred

\* an index pulse on a channel in overflow, with a raw difference outside the
\* int32 range and a position that is not 0
C7_ReanchoredAfterOverflow ==
    /\ op = "read"
    /\ \E c \in Channels :
          /\ encoder.instances[c].index_pulse
          /\ rstart[c].overflow_occurred
          /\ encoder.instances[c].raw_counts - rstart[c].raw_counts > INT_MAX
          /\ encoder.instances[c].position # RZero
          /\ encoder.instances[c].position # rstart[c].position

\* C8: on a read cycle without index pulse and without reset, a raw difference
\* outside the int32 range sets overflow_occurred and the difference that
\* advances the position has the sign of the movement of the counter, positive
\* for a forward rollover and negative for a backward one, and is below 2^31 in
\* size; a raw difference inside the range does not set overflow_occurred.
C8_RolloverDifference ==
    op = "read" =>
        \A c \in Channels :
            (~encoder.instances[c].index_pulse /\ ~rstart[c].reset) =>
                LET raw == encoder.instances[c].raw_counts - rstart[c].raw_counts
                    moved == IF encoder.instances[c].x4_mode THEN WrapInt32(raw)
                             ELSE CDiv(WrapInt32(raw), 4)
                IN  IF raw < INT_MIN \/ raw > INT_MAX
                    THEN /\ encoder.instances[c].overflow_occurred
                         /\ Sign(encoder.instances[c].difference) = Sign(moved)
                         /\ Abs(encoder.instances[c].difference) <= INT_MAX
                    ELSE encoder.instances[c].overflow_occurred
                             => rstart[c].overflow_occurred

C10_NearZeroScaleIsClamped ==
    op = "read" =>
        \A c \in Channels :
            NearZero(rstart[c].position_scale) =>
                /\ encoder.instances[c].position_scale = ROne
                /\ encoder.instances[c].position_scale_recip = ROne

\* the period of the last read cycle, in seconds
PeriodSeconds == RMul(RInt(encoder.memo_period), << 1, 1000000000 >>)

\* C11: after N read cycles in a row in which a channel has no index pulse and
\* its position changes by the same delta d, with the period T, velocity is
\* d / T and velocity_rpm is 60 * d / T (N the length of the velocity history).
C11_VelocityConverges ==
    op = "read" =>
        \A c \in Channels :
            history[c].steady = LITEXCNC_ENCODER_POSITION_AVERAGE_SIZE =>
                /\ encoder.instances[c].velocity
                     = RDiv(history[c].delta, PeriodSeconds)
                /\ encoder.instances[c].velocity_rpm
                     = RMul(RInt(60), RDiv(history[c].delta, PeriodSeconds))

\* the position_scale a read cycle is meant to work with: 1.0 in place of a
\* scale within the threshold of zero
ClampedScale(scale) == IF NearZero(scale) THEN ROne ELSE scale

\* C12: after a read cycle, a channel whose overflow_occurred is false has counts
\* equal to the counts before the offset minus the reset offset (in int32) and
\* position equal to counts times the reciprocal of the clamped position_scale
\* the cycle started with.
C12_AbsoluteTracking ==
    op = "read" =>
        \A c \in Channels :
            ~encoder.instances[c].overflow_occurred =>
                /\ encoder.instances[c].counts
                     = WrapInt32(PreOffsetCounts(encoder.instances[c])
                                 - encoder.instances[c].memo_position_reset)
                /\ encoder.instances[c].position
                     = RMul(RInt(encoder.instances[c].counts),
                            RDiv(ROne, ClampedScale(rstart[c].position_scale)))

\* C13: in a read cycle every channel without index pulse stores its sample at
\* the same velocity pointer, and when a sample was stored the pointer is one
\* position further (circularly, in a history of N entries) after the cycle,
\* for every number of channels.
C13_PointerAdvancesOncePerCycle ==
    (op = "read" /\ encoder.num_instances > 0) =>
        /\ \A c, d \in Channels :
              (rslots[c].wrote /\ rslots[d].wrote) => rslots[c].seen = rslots[d].seen
        /\ (\E c \in Channels : rslots[c].wrote) =>
              encoder.memo_velocity_pointer
                = (rslots[0].seen + 1) % LITEXCNC_ENCODER_POSITION_AVERAGE_SIZE

\* the slots of the velocity history
Slots == 0 .. LITEXCNC_ENCODER_POSITION_AVERAGE_SIZE - 1

\* whether the velocity history holds the samples of recent, each as often
SameSamples(velocity, recent) ==
    \A j \in Slots :
        Cardinality({ k \in Slots : velocity[k] = velocity[j] })
          = Cardinality({ k \in Slots : recent[k + 1] = velocity[j] })

\* the orders in which the samples of recent can lie in the history
SlotOrders == { f \in [Slots -> 1 .. LITEXCNC_ENCODER_POSITION_AVERAGE_SIZE] :
                  \A j, k \in Slots : f[j] = f[k] => j = k }

\* C14: after a read cycle of a channel without index pulse, the velocity history
\* of the channel holds the N most recent samples of the channel (0 for samples
\* not yet produced), the sample of this cycle among them, and velocity is the
\* mean of those N samples (summed in float, in the order of the slots).
C14_HistoryHoldsRecentSamples ==
    op = "read" =>
        \A c \in Channels :
            rslots[c].wrote =>
                /\ history[c].recent[1] = rslots[c].sample
                /\ SameSamples(encoder.instances[c].memo_velocity, history[c].recent)
                /\ \E f \in SlotOrders :
                      encoder.instances[c].velocity
                        = RMul(average_loop(0, [j \in Slots |-> history[c].recent[f[j]]],
                                            RZero),
                               LITEXCNC_ENCODER_POSITION_AVERAGE_RECIP)

\* C15: after a read cycle in which index_pulse of a channel is true, velocity,
\* velocity_rpm and every entry of the velocity history of the channel are what
\* they were before the cycle, the channel has stored no sample and it has left
\* the velocity pointer where it met it.
C15_IndexPulseLeavesVelocity ==
    op = "read" =>
        \A c \in Channels :
            encoder.instances[c].index_pulse =>
                /\ encoder.instances[c].velocity = rstart[c].velocity
                /\ encoder.instances[c].velocity_rpm = rstart[c].velocity_rpm
                /\ encoder.instances[c].memo_velocity = rstart[c].memo_velocity
                /\ ~rslots[c].wrote
                /\ rslots[c].left = rslots[c].seen

\* an index pulse on a channel with a velocity other than 0, in a cycle that
\* moves the position of the channel
C15_VelocityKeptWhilePositionMoves ==
    /\ op = "read"
    /\ \E c \in Channels :
          /\ encoder.instances[c].index_pulse
          /\ rstart[c].velocity # RZero
          /\ encoder.instances[c].position # rstart[c].position

\* a read cycle on a buffer that reports an index pulse for an enabled channel
\* clears index_enable of the channel and sets its index_pulse
HandshakeRead ==
    (op' = "read" /\ encoder.num_instances > 0) =>
        \A c \in Channels :
            (RegisterBit(rdata', 0, c) /\ encoder.instances[c].index_enable) =>
                /\ ~encoder'.instances[c].index_enable
                /\ encoder'.instances[c].index_pulse

\* the write cycle that follows a read cycle, into a zeroed buffer: for a channel
\* whose index pulse was reported while it was enabled it sends index enable 0
\* and reset index pulse 1; for a channel without reported index pulse it sends
\* reset index pulse 0
HandshakeWrite ==
    (op = "read" /\ op' = "write" /\ encoder.num_instances > 0
       /\ \A k \in DOMAIN wdata_in' : wdata_in'[k] = 0) =>
        \A c \in Channels :
            /\ (RegisterBit(rdata, 0, c) /\ rstart[c].index_enable) =>
                  /\ ~RegisterBit(wdata', 0, c)
                  /\ RegisterBit(wdata', single_dword_buffer(encoder), c)
            /\ ~RegisterBit(rdata, 0, c) =>
                  ~RegisterBit(wdata', single_dword_buffer(encoder), c)

\* no cycle sets index_enable, and a write cycle leaves the channels as they are
HandshakeFrame ==
    /\ op' \in { "read", "write" } =>
          \A c \in Channels :
              encoder'.instances[c].index_enable => encoder.instances[c].index_enable
    /\ op' = "write" => encoder' = encoder

\* C16: the index handshake, for every channel i: an index pulse reported at bit
\* i while index_enable is true clears index_enable and sets index_pulse; the
\* write cycle that follows sends index enable 0 and reset index pulse 1 at bit i;
\* after a read cycle without index pulse at bit i the write cycle sends reset
\* index pulse 0; no cycle sets index_enable and a write cycle changes no channel.
C16_IndexHandshake == [][HandshakeRead /\ HandshakeWrite /\ HandshakeFrame]_vars

\* the raw counts of the last read cycle minus those of the cycle before
RawDelta(c) == encoder.instances[c].raw_counts - rstart[c].raw_counts

\* C17: a read cycle without index pulse and without reset, on a channel whose
\* overflow_occurred was set before the cycle, moves the position by the raw
\* delta times the reciprocal of the scale when x4_mode is true and by the raw
\* delta / 4 times the reciprocal when it is false (stated for the cycles whose
\* raw delta lies inside the int32 range, those after the detection).
C17_IncrementalTrackingUnit ==
    op = "read" =>
        \A c \in Channels :
            (rstart[c].overflow_occurred /\ ~rstart[c].reset
               /\ ~encoder.instances[c].index_pulse
               /\ RawDelta(c) >= INT_MIN /\ RawDelta(c) <= INT_MAX) =>
                RSub(encoder.instances[c].position, rstart[c].position)
                  = RMul(RInt(IF encoder.instances[c].x4_mode THEN RawDelta(c)
                              ELSE CDiv(RawDelta(c), 4)),
                         encoder.instances[c].position_scale_recip)

\* C18: in a read cycle without index pulse and without reset whose raw delta
\* lies outside the int32 range, the corrected difference is the raw delta
\* modulo 2^32 as a signed 32-bit value (divided by 4 when x4_mode is false).
C18_CorrectedDifferenceIsMovement ==
    op = "read" =>
        \A c \in Channels :
            (~rstart[c].reset /\ ~encoder.instances[c].index_pulse
               /\ (RawDelta(c) < INT_MIN \/ RawDelta(c) > INT_MAX)) =>
                encoder.instances[c].difference
                  = IF encoder.instances[c].x4_mode THEN WrapInt32(RawDelta(c))
                    ELSE CDiv(WrapInt32(RawDelta(c)), 4)

\* C19: whenever a read cycle stores a velocity sample of a channel, the velocity
\* pointer it stores at is one of the slots 0 .. N - 1 of the history.
C19_SamplesLandInTheHistory ==
    op = "read" =>
        \A c \in Channels : rslots[c].wrote => rslots[c].seen \in Slots

====
